---- MODULE Spec2Model ----
(***************************************************************************)
(* Model of src/hex_analyzer.py: class HexAnalyzer.                        *)
(*                                                                         *)
(* A buffer (the content of the analysed file) is a sequence of bytes      *)
(* 0..255.  analyze_file loads it, dispatches on the signature to          *)
(* analyze_png / analyze_jpeg / analyze_bmp and finally prints the hex     *)
(* dump of the first 128 bytes.  Every print of the program is recorded    *)
(* as a fact appended to `facts` (or a row appended to `rows`).  Python    *)
(* indices are 0-based; TLA+ sequences are 1-based, so byte i of the       *)
(* buffer is data[i + 1].                                                  *)
(***************************************************************************)
EXTENDS Integers, Sequences, FiniteSets, TLC

VARIABLES data, pc, offset, chunk_count, marker_count, facts, raised,
          invoked, dump_start, dump_len, dump_end, dump_i, rows

vars == <<data, pc, offset, chunk_count, marker_count, facts, raised,
          invoked, dump_start, dump_len, dump_end, dump_i, rows>>

(***************************************************************************)
(* Bounds of the explored input space.                                     *)
(***************************************************************************)
MaxChunks == 2
MaxSegs == 4
MaxCut == 13
MaxJpegCut == 2
MaxBmpLen == 27
MaxOtherLen == 2
MaxPad == 1
MaxDumpBuf == 36
MaxDumpStart == 18
MaxDumpLen == 36

(***************************************************************************)
(* Python sequence primitives.                                             *)
(***************************************************************************)
Min(a, b) == IF a < b THEN a ELSE b

\* s[a:b] for 0 <= a, 0 <= b: the slice is clamped to the sequence.
Slice(s, a, b) == IF a >= Min(b, Len(s)) THEN <<>> ELSE SubSeq(s, a + 1, Min(b, Len(s)))

RECURSIVE Flatten(_)
Flatten(ss) == IF ss = <<>> THEN <<>> ELSE Head(ss) \o Flatten(Tail(ss))

RECURSIVE SumSeq(_)
SumSeq(s) == IF s = <<>> THEN 0 ELSE Head(s) + SumSeq(Tail(s))

\* struct.unpack('>I', b)[0] on a 4-byte sequence
u32_be(b) == b[1] * 16777216 + b[2] * 65536 + b[3] * 256 + b[4]

\* mutant: the four bytes are taken in big-endian order
u32_le_swapped(b) == b[4] + b[3] * 256 + b[2] * 65536 + b[1] * 16777216

\* struct.unpack('<I', b)[0] on a 4-byte sequence
u32_le(b) == b[1] + b[2] * 256 + b[3] * 65536 + b[4] * 16777216

\* struct.unpack('<H', b)[0] on a 2-byte sequence
u16_le(b) == b[1] + b[2] * 256

(***************************************************************************)
(* bytes.decode(): strict UTF-8 validation of a byte sequence.             *)
(***************************************************************************)
IsCont(b) == b >= 128 /\ b <= 191

RECURSIVE Utf8Valid(_)
Utf8Valid(s) ==
  IF s = <<>> THEN TRUE
  ELSE LET b == s[1]
           n == Len(s)
       IN  IF b <= 127 THEN Utf8Valid(Tail(s))
           ELSE IF b >= 194 /\ b <= 223
             THEN n >= 2 /\ IsCont(s[2]) /\ Utf8Valid(SubSeq(s, 3, n))
           ELSE IF b >= 224 /\ b <= 239
             THEN /\ n >= 3
                  /\ IsCont(s[2]) /\ IsCont(s[3])
                  /\ (b = 224 => s[2] >= 160)
                  /\ (b = 237 => s[2] <= 159)
                  /\ Utf8Valid(SubSeq(s, 4, n))
           ELSE IF b >= 240 /\ b <= 244
             THEN /\ n >= 4
                  /\ IsCont(s[2]) /\ IsCont(s[3]) /\ IsCont(s[4])
                  /\ (b = 240 => s[2] >= 144)
                  /\ (b = 244 => s[2] <= 143)
                  /\ Utf8Valid(SubSeq(s, 5, n))
           ELSE FALSE

(***************************************************************************)
(* zlib.decompress.  Streams made of stored deflate blocks are inflated    *)
(* exactly (header check, LEN/NLEN check, Adler-32 check, trailing bytes   *)
(* ignored).  A stream that reaches a Huffman-coded block is outside the   *)
(* exact part: every outcome (an error or some output) is possible.        *)
(***************************************************************************)
\* the two 16-bit halves <<b, a>> of the Adler-32 checksum b * 65536 + a
Adler32(s) ==
  LET a(k) == (1 + SumSeq(SubSeq(s, 1, k))) % 65521
      b == SumSeq([k \in 1..Len(s) |-> a(k)]) % 65521
  IN  <<b, a(Len(s))>>

\* a big-endian 16-bit value
u16_be(b) == b[1] * 256 + b[2]

ZErr == [ok |-> FALSE, out |-> <<>>]

ZOk(out) == [ok |-> TRUE, out |-> out]

ZUnknownOutputs == {<<>>, <<0>>, <<0, 0>>}

ZHeaderOk(d) ==
  /\ Len(d) >= 2
  /\ d[1] % 16 = 8
  /\ d[1] \div 16 <= 7
  /\ (d[1] * 256 + d[2]) % 31 = 0
  /\ (d[2] \div 32) % 2 = 0

\* inflate from 0-based position p with the output accumulated so far
RECURSIVE InflateFrom(_, _, _)
InflateFrom(d, p, out) ==
  IF p >= Len(d) THEN {ZErr}
  ELSE LET hdr == d[p + 1]
           bfinal == hdr % 2
           btype == (hdr \div 2) % 4
       IN  IF btype = 3 THEN {ZErr}
           ELSE IF btype # 0 THEN {ZErr} \cup {ZOk(out \o o) : o \in ZUnknownOutputs}
           ELSE IF p + 5 > Len(d) THEN {ZErr}
           ELSE LET len == u16_le(Slice(d, p + 1, p + 3))
                    nlen == u16_le(Slice(d, p + 3, p + 5))
                    body == Slice(d, p + 5, p + 5 + len)
                    q == p + 5 + len
                IN  IF len + nlen # 65535 THEN {ZErr}
                    ELSE IF Len(body) < len THEN {ZErr}
                    ELSE IF bfinal = 0 THEN InflateFrom(d, q, out \o body)
                    ELSE IF q + 4 > Len(d) THEN {ZErr}
                    ELSE IF <<u16_be(Slice(d, q, q + 2)), u16_be(Slice(d, q + 2, q + 4))>> # Adler32(out \o body)
                      THEN {ZErr}
                    ELSE {ZOk(out \o body)}

zlib_decompress(d) == IF ZHeaderOk(d) THEN InflateFrom(d, 2, <<>>) ELSE {ZErr}

(***************************************************************************)
(* Byte strings of the formats.                                            *)
(***************************************************************************)
PNG_SIG == <<137, 80, 78, 71, 13, 10, 26, 10>>

JPEG_SIG == <<255, 216>>

BMP_SIG == <<66, 77>>

TAG_IHDR == <<73, 72, 68, 82>>

TAG_IDAT == <<73, 68, 65, 84>>

TAG_IEND == <<73, 69, 78, 68>>

(***************************************************************************)
(* The input space: the buffers the analysis is run on.                    *)
(***************************************************************************)
BE32(n) == <<(n \div 16777216) % 256, (n \div 65536) % 256, (n \div 256) % 256, n % 256>>

MkChunk(type, payload, crc) == BE32(Len(payload)) \o type \o payload \o crc

IhdrGoodPayload == <<0, 0, 1, 10, 0, 0, 0, 10, 8, 2, 0, 0, 0>>

StoredA == <<120, 1, 1, 1, 0, 254, 255, 65, 0, 66, 0, 66>>

StoredBadAdler == <<120, 1, 1, 1, 0, 254, 255, 65, 0, 66, 0, 67>>

HuffmanEmpty == <<120, 156, 3, 0, 0, 0, 0, 1>>

ChunkMenu ==
  { MkChunk(TAG_IHDR, IhdrGoodPayload, <<1, 2, 3, 4>>),
    MkChunk(TAG_IHDR, <<7>>, <<1, 2, 3, 4>>),
    MkChunk(TAG_IHDR, IhdrGoodPayload \o <<9>>, <<1, 2, 3, 4>>),
    MkChunk(TAG_IDAT, StoredA, <<1, 2, 3, 4>>),
    MkChunk(TAG_IDAT, <<>>, <<1, 2, 3, 4>>),
    MkChunk(TAG_IDAT, StoredBadAdler, <<1, 2, 3, 4>>),
    MkChunk(TAG_IDAT, HuffmanEmpty, <<1, 2, 3, 4>>),
    MkChunk(TAG_IEND, <<>>, <<174, 66, 96, 130>>),
    MkChunk(<<116, 69, 88, 116>>, <<65>>, <<1, 2, 3, 4>>),
    MkChunk(<<255, 255, 255, 255>>, <<>>, <<1, 2, 3, 4>>) }

PadChunk == MkChunk(<<116, 69, 88, 116>>, [k \in 1..116 |-> 0], <<1, 2, 3, 4>>)

SegMenu ==
  { <<255, 224, 0, 2>>, <<255, 219, 0, 2>>, <<255, 218, 0, 2>>,
    <<255, 217>>, <<255, 0>>, <<17>> }

OtherAlphabet == {0, 66, 77, 80, 137, 216, 255}

SeqsUpTo(S, n) == UNION {[1..k -> S] : k \in 0..n}

CutTail(s, c) == SubSeq(s, 1, Len(s) - c)

PngBuffers ==
  { CutTail(PNG_SIG \o Flatten([k \in 1..p |-> PadChunk]) \o Flatten(cs),
            Min(c, 8 + 128 * p + Len(Flatten(cs)))) :
      p \in 0..MaxPad, cs \in SeqsUpTo(ChunkMenu, MaxChunks), c \in 0..MaxCut }

JpegBuffers ==
  { CutTail(JPEG_SIG \o Flatten(ss), Min(c, 2 + Len(Flatten(ss)))) :
      ss \in SeqsUpTo(SegMenu, MaxSegs), c \in 0..MaxJpegCut }

BmpBuffers ==
  { BMP_SIG \o [k \in 1..n |-> (k * m + 5) % 128] : n \in 0..(MaxBmpLen - 2), m \in {0, 37} }

OtherBuffers ==
  SeqsUpTo(OtherAlphabet, MaxOtherLen)
    \cup { [PNG_SIG EXCEPT ![k] = 0] \o MkChunk(TAG_IEND, <<>>, <<174, 66, 96, 130>>) : k \in 1..8 }

Buffers == PngBuffers \cup JpegBuffers \cup BmpBuffers \cup OtherBuffers

(***************************************************************************)
(* __init__ followed by the choice of the file to analyse.                 *)
(***************************************************************************)
Init ==
  /\ data \in Buffers
  /\ pc = "load_file"
  /\ offset = 0
  /\ chunk_count = 0
  /\ marker_count = 0
  /\ facts = <<>>
  /\ raised = "none"
  /\ invoked = <<>>
  /\ dump_start = 0
  /\ dump_len = 0
  /\ dump_end = 0
  /\ dump_i = 0
  /\ rows = <<>>

(***************************************************************************)
(* load_file and the dispatch of analyze_file.                             *)
(***************************************************************************)
\* mutant: the BMP test looks at the first byte only
DetectKindFirstByteBmp(d) ==
  IF Slice(d, 0, 8) = PNG_SIG THEN "PNG"
  ELSE IF Slice(d, 0, 2) = JPEG_SIG THEN "JPEG"
  ELSE IF Slice(d, 0, 1) = <<66>> THEN "BMP"
  ELSE "Unknown"

\* the ordered signature tests of analyze_file
DetectKind(d) ==
  IF Slice(d, 0, 8) = PNG_SIG THEN "PNG"
  ELSE IF Slice(d, 0, 2) = JPEG_SIG THEN "JPEG"
  ELSE IF Slice(d, 0, 2) = BMP_SIG THEN "BMP"
  ELSE "Unknown"

\* load_file: the file is missing (analyze_file returns at once) or is read
LoadFile ==
  /\ pc = "load_file"
  /\ \E exists \in BOOLEAN :
       IF exists
         THEN /\ pc' = "analyze_file"
              /\ facts' = Append(facts, [kind |-> "loaded", size |-> Len(data)])
         ELSE /\ pc' = "done"
              /\ facts' = Append(facts, [kind |-> "not_found"])
  /\ UNCHANGED <<data, offset, chunk_count, marker_count, raised, invoked,
                 dump_start, dump_len, dump_end, dump_i, rows>>

\* analyze_file after load_file: one format analysis is called, or none,
\* and print_hex_dump(0, 128) is what follows its return
AnalyzeFile ==
  /\ pc = "analyze_file"
  /\ LET k == DetectKind(data)
     IN  /\ pc' = CASE k = "PNG" -> "analyze_png"
                    [] k = "JPEG" -> "analyze_jpeg"
                    [] k = "BMP" -> "analyze_bmp"
                    [] OTHER -> "print_hex_dump"
         /\ invoked' = IF k = "Unknown" THEN invoked ELSE Append(invoked, k)
         /\ facts' = IF k = "Unknown"
                       THEN Append(facts, [kind |-> "unknown_format"])
                       ELSE facts
  /\ dump_start' = 0
  /\ dump_len' = 128
  /\ UNCHANGED <<data, offset, chunk_count, marker_count, raised,
                 dump_end, dump_i, rows>>

(***************************************************************************)
(* analyze_png                                                             *)
(***************************************************************************)
\* the guards and the signature test that precede the chunk loop
AnalyzePng ==
  /\ pc = "analyze_png"
  /\ IF Len(data) < 8
       THEN /\ facts' = Append(facts, [kind |-> "png_insufficient"])
            /\ pc' = "print_hex_dump"
            /\ UNCHANGED <<offset, chunk_count>>
       ELSE IF Slice(data, 0, 8) = PNG_SIG
         THEN /\ facts' = Append(facts, [kind |-> "png_signature", sig |-> Slice(data, 0, 8)])
              /\ offset' = 8
              /\ chunk_count' = 0
              /\ pc' = "png_loop"
         ELSE /\ facts' = Append(facts, [kind |-> "png_bad_signature"])
              /\ pc' = "print_hex_dump"
              /\ UNCHANGED <<offset, chunk_count>>
  /\ UNCHANGED <<data, marker_count, raised, invoked,
                 dump_start, dump_len, dump_end, dump_i, rows>>

\* while offset < len(self.data) - 12
PngLoopCond(off, n) == off < n - 12

\* if offset + 12 > len(self.data): break
PngHeaderBreak(off, n) == off + 12 > n

PngEnters == pc = "png_loop" /\ PngLoopCond(offset, Len(data)) /\ ~PngHeaderBreak(offset, Len(data))

\* the four reads of the chunk at the current offset
ChunkLength == u32_be(Slice(data, offset, offset + 4))

ChunkType == Slice(data, offset + 4, offset + 8)

ChunkData == Slice(data, offset + 8, offset + 8 + ChunkLength)

ChunkCrc == Slice(data, offset + 8 + ChunkLength, offset + 12 + ChunkLength)

\* the three prints every chunk gets: type, declared length, CRC
ChunkFact(kind) ==
  [kind |-> kind, off |-> offset, num |-> chunk_count + 1, type |-> ChunkType,
   length |-> ChunkLength, crc |-> ChunkCrc]

\* offset += 12 + length
PngNextOffset(off, length) == off + 12 + length

\* the loop is left: the condition is false, or the inner break is taken
PngLoopExit ==
  /\ pc = "png_loop"
  /\ ~PngLoopCond(offset, Len(data)) \/ PngHeaderBreak(offset, Len(data))
  /\ pc' = "print_hex_dump"
  /\ UNCHANGED <<data, offset, chunk_count, marker_count, facts, raised, invoked,
                 dump_start, dump_len, dump_end, dump_i, rows>>

\* chunk_type.decode() raises UnicodeDecodeError: nothing catches it
PngChunkRaise ==
  /\ PngEnters
  /\ ~Utf8Valid(ChunkType)
  /\ chunk_count' = chunk_count + 1
  /\ facts' = Append(facts, [kind |-> "chunk_number", off |-> offset, num |-> chunk_count + 1])
  /\ raised' = "UnicodeDecodeError"
  /\ pc' = "raised"
  /\ UNCHANGED <<data, offset, marker_count, invoked,
                 dump_start, dump_len, dump_end, dump_i, rows>>

\* _analyze_ihdr_chunk(data): the fields decoded from a 13-byte payload
IhdrFields(d) ==
  [width |-> u32_be(Slice(d, 0, 4)), height |-> u32_be(Slice(d, 4, 8)),
   bit_depth |-> d[9], color_type |-> d[10], compression |-> d[11],
   filter_method |-> d[12], interlace |-> d[13]]

\* mutant: a payload longer than 13 bytes is decoded as well
IhdrLengthAtLeast13(d) == Len(d) >= 13

\* if len(data) != 13: the chunk is reported as malformed
IhdrLengthOk(d) == Len(d) = 13

PngChunkIHDR ==
  /\ PngEnters
  /\ Utf8Valid(ChunkType)
  /\ ChunkType = TAG_IHDR
  /\ chunk_count' = chunk_count + 1
  /\ facts' = Append(facts,
                IF IhdrLengthOk(ChunkData)
                  THEN [ChunkFact("IHDR") EXCEPT !.kind = "IHDR"] @@ [fields |-> IhdrFields(ChunkData)]
                  ELSE ChunkFact("IHDR_malformed"))
  /\ offset' = PngNextOffset(offset, ChunkLength)
  /\ UNCHANGED <<data, pc, marker_count, raised, invoked,
                 dump_start, dump_len, dump_end, dump_i, rows>>

\* mutant: no try block, the error of zlib.decompress leaves the function
analyze_idat_chunk_uncaught(d, r) ==
  IF ~r.ok
    THEN [kind |-> "IDAT_error", compressed |-> Len(d), reason |-> "zlib.error", escaped |-> TRUE]
    ELSE [kind |-> "IDAT", compressed |-> Len(d), decompressed |-> Len(r.out),
          ratio |-> <<Len(r.out), Len(d)>>, preview |-> Slice(r.out, 0, 16),
          escaped |-> FALSE]

\* _analyze_idat_chunk(data) when zlib.decompress(data) gives r: what is
\* printed, and whether an exception leaves the function.  The try block
\* catches zlib.error and the ZeroDivisionError of the ratio alike.
analyze_idat_chunk(d, r) ==
  IF ~r.ok
    THEN [kind |-> "IDAT_error", compressed |-> Len(d), reason |-> "zlib.error", escaped |-> FALSE]
    ELSE IF Len(d) = 0
      THEN [kind |-> "IDAT_error", compressed |-> Len(d), reason |-> "ZeroDivisionError",
            escaped |-> FALSE]
      ELSE [kind |-> "IDAT", compressed |-> Len(d), decompressed |-> Len(r.out),
            ratio |-> <<Len(r.out), Len(d)>>, preview |-> Slice(r.out, 0, 16),
            escaped |-> FALSE]

PngChunkIDAT ==
  /\ PngEnters
  /\ Utf8Valid(ChunkType)
  /\ ChunkType = TAG_IDAT
  /\ \E r \in zlib_decompress(ChunkData) :
       LET res == analyze_idat_chunk(ChunkData, r)
       IN  /\ facts' = Append(facts, ChunkFact(res.kind) @@ res)
           /\ IF res.escaped
                THEN /\ pc' = "raised"
                     /\ raised' = res.reason
                     /\ offset' = offset
                ELSE /\ pc' = pc
                     /\ raised' = raised
                     /\ offset' = PngNextOffset(offset, ChunkLength)
  /\ chunk_count' = chunk_count + 1
  /\ UNCHANGED <<data, marker_count, invoked,
                 dump_start, dump_len, dump_end, dump_i, rows>>

\* elif chunk_type == b'IEND': ... break
PngChunkIEND ==
  /\ PngEnters
  /\ Utf8Valid(ChunkType)
  /\ ChunkType = TAG_IEND
  /\ chunk_count' = chunk_count + 1
  /\ facts' = Append(facts, ChunkFact("IEND"))
  /\ pc' = "print_hex_dump"
  /\ UNCHANGED <<data, offset, marker_count, raised, invoked,
                 dump_start, dump_len, dump_end, dump_i, rows>>

\* any other decodable tag: the three generic prints only
PngChunkOther ==
  /\ PngEnters
  /\ Utf8Valid(ChunkType)
  /\ ChunkType \notin {TAG_IHDR, TAG_IDAT, TAG_IEND}
  /\ chunk_count' = chunk_count + 1
  /\ facts' = Append(facts, ChunkFact("chunk"))
  /\ offset' = PngNextOffset(offset, ChunkLength)
  /\ UNCHANGED <<data, pc, marker_count, raised, invoked,
                 dump_start, dump_len, dump_end, dump_i, rows>>

(***************************************************************************)
(* analyze_jpeg                                                            *)
(***************************************************************************)
\* offset = 2: the scan starts behind the two signature bytes
JpegStartOffset == 2

AnalyzeJpeg ==
  /\ pc = "analyze_jpeg"
  /\ IF Len(data) < 4
       THEN /\ facts' = Append(facts, [kind |-> "jpeg_insufficient"])
            /\ pc' = "print_hex_dump"
            /\ UNCHANGED <<offset, marker_count>>
       ELSE IF Slice(data, 0, 2) = JPEG_SIG
         THEN /\ facts' = Append(facts, [kind |-> "jpeg_signature", sig |-> Slice(data, 0, 2)])
              /\ offset' = JpegStartOffset
              /\ marker_count' = 0
              /\ pc' = "jpeg_loop"
         ELSE /\ facts' = Append(facts, [kind |-> "jpeg_bad_signature"])
              /\ pc' = "print_hex_dump"
              /\ UNCHANGED <<offset, marker_count>>
  /\ UNCHANGED <<data, chunk_count, raised, invoked,
                 dump_start, dump_len, dump_end, dump_i, rows>>

\* mutant: the scan runs up to the last byte of the buffer
JpegLoopCondToLastByte(off, n) == off < n

\* while offset < len(self.data) - 1
JpegLoopCond(off, n) == off < n - 1

\* mutant: only EOI ends the scan
IsTerminalMarkerEoiOnly(m) == m = 217

\* marker == 0xD9 (EOI) or marker == 0xDA (SOS): the two breaks
IsTerminalMarker(m) == m = 217 \/ m = 218

\* mutant: the byte behind the one just examined is skipped
JpegNextOffsetSkipsCode(off) == off + 2

\* offset += 1
JpegNextOffset(off) == off + 1

\* _get_jpeg_marker_name
get_jpeg_marker_name(m) ==
  CASE m = 216 -> "SOI (Start of Image)"
    [] m = 217 -> "EOI (End of Image)"
    [] m = 218 -> "SOS (Start of Scan)"
    [] m = 219 -> "DQT (Define Quantization Table)"
    [] m = 192 -> "SOF0 (Start of Frame)"
    [] m = 196 -> "DHT (Define Huffman Table)"
    [] m = 224 -> "APP0 (Application Data)"
    [] OTHER -> "Unknown"

MarkerFact ==
  [kind |-> "marker", off |-> offset, num |-> marker_count + 1,
   code |-> data[offset + 2], name |-> get_jpeg_marker_name(data[offset + 2])]

JpegLoopExit ==
  /\ pc = "jpeg_loop"
  /\ ~JpegLoopCond(offset, Len(data))
  /\ pc' = "print_hex_dump"
  /\ UNCHANGED <<data, offset, chunk_count, marker_count, facts, raised, invoked,
                 dump_start, dump_len, dump_end, dump_i, rows>>

\* the byte at offset is not 0xFF
JpegSkip ==
  /\ pc = "jpeg_loop"
  /\ JpegLoopCond(offset, Len(data))
  /\ data[offset + 1] # 255
  /\ offset' = JpegNextOffset(offset)
  /\ UNCHANGED <<data, pc, chunk_count, marker_count, facts, raised, invoked,
                 dump_start, dump_len, dump_end, dump_i, rows>>

\* 0xFF followed by a code that is neither EOI nor SOS
JpegMarker ==
  /\ pc = "jpeg_loop"
  /\ JpegLoopCond(offset, Len(data))
  /\ data[offset + 1] = 255
  /\ ~IsTerminalMarker(data[offset + 2])
  /\ marker_count' = marker_count + 1
  /\ facts' = Append(facts, MarkerFact)
  /\ offset' = JpegNextOffset(offset)
  /\ UNCHANGED <<data, pc, chunk_count, raised, invoked,
                 dump_start, dump_len, dump_end, dump_i, rows>>

\* 0xFF followed by EOI or SOS: the marker is printed and the loop is left
JpegTerminal ==
  /\ pc = "jpeg_loop"
  /\ JpegLoopCond(offset, Len(data))
  /\ data[offset + 1] = 255
  /\ IsTerminalMarker(data[offset + 2])
  /\ marker_count' = marker_count + 1
  /\ facts' = Append(facts, MarkerFact @@ [terminal |-> TRUE])
  /\ pc' = "print_hex_dump"
  /\ UNCHANGED <<data, offset, chunk_count, raised, invoked,
                 dump_start, dump_len, dump_end, dump_i, rows>>

(***************************************************************************)
(* analyze_bmp                                                             *)
(***************************************************************************)
BmpFileHeader(d) ==
  [kind |-> "bmp_file_header", file_size |-> u32_le(Slice(d, 2, 6)),
   reserved1 |-> u16_le(Slice(d, 6, 8)), reserved2 |-> u16_le(Slice(d, 8, 10)),
   data_offset |-> u32_le(Slice(d, 10, 14))]

BmpInfoHeader(d) ==
  [kind |-> "bmp_info_header", header_size |-> u32_le(Slice(d, 14, 18)),
   width |-> u32_le(Slice(d, 18, 22)), height |-> u32_le(Slice(d, 22, 26))]

AnalyzeBmp ==
  /\ pc = "analyze_bmp"
  /\ facts' =
       IF Len(data) < 14
         THEN Append(facts, [kind |-> "bmp_insufficient"])
         ELSE IF Slice(data, 0, 2) # BMP_SIG
           THEN Append(facts, [kind |-> "bmp_bad_signature"])
           ELSE LET withFile == facts \o <<[kind |-> "bmp_signature", sig |-> Slice(data, 0, 2)],
                                           BmpFileHeader(data)>>
                IN  IF Len(data) >= 26
                      THEN Append(withFile, BmpInfoHeader(data))
                      ELSE withFile
  /\ pc' = "print_hex_dump"
  /\ UNCHANGED <<data, offset, chunk_count, marker_count, raised, invoked,
                 dump_start, dump_len, dump_end, dump_i, rows>>

(***************************************************************************)
(* print_hex_dump(start, length)                                           *)
(***************************************************************************)
\* one printed row: 16 byte slots (-1 is a blank slot) and the ASCII gutter
\* (46 is '.', 32 is the blank of a missing byte)
HexRow(d, i) ==
  [addr |-> i,
   hex |-> [j \in 1..16 |-> IF i + (j - 1) < Len(d) THEN d[i + j] ELSE -1],
   ascii |-> [j \in 1..16 |->
                IF i + (j - 1) < Len(d)
                  THEN IF 32 <= d[i + j] /\ d[i + j] <= 126 THEN d[i + j] ELSE 46
                  ELSE 32]]

\* mutant: the end of the range is not clamped to the buffer
DumpEndUnclamped(start, length, n) == start + length

\* end = min(start + length, len(self.data))
DumpEnd(start, length, n) == Min(start + length, n)

PrintHexDump ==
  /\ pc = "print_hex_dump"
  /\ IF Len(data) = 0
       THEN /\ facts' = Append(facts, [kind |-> "not_loaded"])
            /\ pc' = "done"
            /\ UNCHANGED <<dump_end, dump_i>>
       ELSE /\ dump_end' = DumpEnd(dump_start, dump_len, Len(data))
            /\ dump_i' = dump_start
            /\ facts' = Append(facts, [kind |-> "hex_dump", start |-> dump_start,
                                       end |-> DumpEnd(dump_start, dump_len, Len(data))])
            /\ pc' = "dump_loop"
  /\ UNCHANGED <<data, offset, chunk_count, marker_count, raised, invoked,
                 dump_start, dump_len, rows>>

\* one iteration of for i in range(start, end, 16)
DumpRow ==
  /\ pc = "dump_loop"
  /\ dump_i < dump_end
  /\ rows' = Append(rows, HexRow(data, dump_i))
  /\ dump_i' = dump_i + 16
  /\ UNCHANGED <<data, pc, offset, chunk_count, marker_count, facts, raised, invoked,
                 dump_start, dump_len, dump_end>>

DumpExit ==
  /\ pc = "dump_loop"
  /\ dump_i >= dump_end
  /\ pc' = "done"
  /\ UNCHANGED <<data, offset, chunk_count, marker_count, facts, raised, invoked,
                 dump_start, dump_len, dump_end, dump_i, rows>>

(***************************************************************************)
(* The program.                                                            *)
(***************************************************************************)
Next ==
  \/ LoadFile
  \/ AnalyzeFile
  \/ AnalyzePng
  \/ PngLoopExit
  \/ PngChunkRaise
  \/ PngChunkIHDR
  \/ PngChunkIDAT
  \/ PngChunkIEND
  \/ PngChunkOther
  \/ AnalyzeJpeg
  \/ JpegLoopExit
  \/ JpegSkip
  \/ JpegMarker
  \/ JpegTerminal
  \/ AnalyzeBmp
  \/ PrintHexDump
  \/ DumpRow
  \/ DumpExit

Spec == Init /\ [][Next]_vars

TypeOK ==
  /\ pc \in {"load_file", "analyze_file", "analyze_png", "png_loop", "analyze_jpeg",
             "jpeg_loop", "analyze_bmp", "print_hex_dump", "dump_loop", "done", "raised"}
  /\ \A k \in 1..Len(data) : data[k] \in 0..255
  /\ offset >= 0

(***************************************************************************)
(* Vocabulary of the properties.                                           *)
(***************************************************************************)
Loaded == facts # <<>> /\ facts[1].kind = "loaded"

\* the format analysis has returned to analyze_file
Returned == pc \in {"print_hex_dump", "dump_loop", "done"}

PngWalked == Loaded /\ invoked = <<"PNG">> /\ Returned

JpegWalked == Loaded /\ invoked = <<"JPEG">> /\ Returned

IsChunkFact(f) == f.kind \in {"chunk", "IHDR", "IHDR_malformed", "IDAT", "IDAT_error", "IEND"}

ChunkFacts == SelectSeq(facts, IsChunkFact)

IsMarkerFact(f) == f.kind = "marker"

MarkerFacts == SelectSeq(facts, IsMarkerFact)

IsLetter(b) == (b >= 65 /\ b <= 90) \/ (b >= 97 /\ b <= 122)

\* the number of chunks of a stream of well-formed chunks that starts at
\* off and ends, with the buffer, on a zero-length IEND; -1 for other buffers
RECURSIVE WellFormedCount(_, _)
WellFormedCount(d, off) ==
  IF off + 12 > Len(d) THEN -1
  ELSE LET L == u32_be(Slice(d, off, off + 4))
           t == Slice(d, off + 4, off + 8)
       IN  IF \E k \in 1..4 : ~IsLetter(t[k]) THEN -1
           ELSE IF off + 12 + L > Len(d) THEN -1
           ELSE IF t = TAG_IEND THEN (IF L = 0 /\ off + 12 = Len(d) THEN 1 ELSE -1)
           ELSE LET r == WellFormedCount(d, off + 12 + L)
                IN  IF r = -1 THEN -1 ELSE r + 1

(***************************************************************************)
(* C1: for a buffer made of the PNG signature, n well-formed chunks other  *)
(* than IEND and a final zero-length IEND chunk, the finished PNG walk has *)
(* reported exactly n + 1 chunks, in buffer order, the last one being the  *)
(* IEND end-of-stream fact.                                                *)
(***************************************************************************)
C1_WellFormedPngReportsAllChunks ==
  (PngWalked /\ WellFormedCount(data, 8) # -1) =>
     /\ Len(ChunkFacts) = WellFormedCount(data, 8)
     /\ ChunkFacts[Len(ChunkFacts)].kind = "IEND"
     /\ \A k \in 1..(Len(ChunkFacts) - 1) : ChunkFacts[k].off < ChunkFacts[k + 1].off

(***************************************************************************)
(* C2: analyze_file never ends in an unhandled exception, and when it is   *)
(* done with a loaded buffer the hex dump of the first min(128, len) bytes *)
(* has been printed.                                                       *)
(***************************************************************************)
C2_ReportAlwaysCompletes ==
  /\ pc # "raised"
  /\ raised = "none"
  /\ (pc = "done" /\ Loaded) =>
        /\ Len(rows) = (Min(128, Len(data)) + 15) \div 16
        /\ \A k \in 1..Len(rows) : rows[k].addr = 16 * (k - 1)

(***************************************************************************)
(* C3: every chunk the PNG walk reports as an ordinary chunk lies fully    *)
(* inside the buffer (offset + 12 + length <= buffer length); a chunk that *)
(* does not is reported by a truncated-chunk diagnostic only.              *)
(***************************************************************************)
C3_TruncatedChunkRejected ==
  \A k \in 1..Len(facts) :
     IsChunkFact(facts[k]) => facts[k].off + 12 + facts[k].length <= Len(data)

\* 0-based positions p >= 2 of the buffer that hold FF D9 or FF DA
TerminalPositions(d) ==
  {p \in 2..(Len(d) - 2) : d[p + 1] = 255 /\ (d[p + 2] = 217 \/ d[p + 2] = 218)}

HasTerminal(d) == TerminalPositions(d) # {}

FirstTerminal(d) == CHOOSE p \in TerminalPositions(d) : \A q \in TerminalPositions(d) : p <= q

\* the last position the scan may look at
ScanLimit(d) == IF HasTerminal(d) THEN FirstTerminal(d) ELSE Len(d) - 2

\* the positions of the 0xFF bytes from the start of the scan to its end
ScannedFF(d) == {p \in 2..ScanLimit(d) : d[p + 1] = 255}

\* SOI, APP0, DQT, SOS with no other 0xFF before SOS, then scan bytes that
\* contain a stray FF 00
IsC4Buffer(d) ==
  /\ Len(d) >= 4
  /\ d[1] = 255 /\ d[2] = 216
  /\ HasTerminal(d)
  /\ d[FirstTerminal(d) + 2] = 218
  /\ Cardinality(ScannedFF(d)) = 3
  /\ \E p, q \in ScannedFF(d) : p < q /\ d[p + 2] = 224 /\ d[q + 2] = 219
  /\ \E r \in (FirstTerminal(d) + 2)..(Len(d) - 2) : d[r + 1] = 255 /\ d[r + 2] = 0

(***************************************************************************)
(* C4 as claimed: on a buffer SOI, APP0, DQT, SOS, scan bytes with a stray *)
(* FF 00, the finished JPEG walk has emitted exactly 4 markers, the first  *)
(* being SOI and the last SOS.                                             *)
(***************************************************************************)
C4_FourMarkersFromSoi ==
  (JpegWalked /\ IsC4Buffer(data)) =>
     /\ Len(MarkerFacts) = 4
     /\ MarkerFacts[1].code = 216
     /\ MarkerFacts[Len(MarkerFacts)].code = 218

(***************************************************************************)
(* C4 amended: the JPEG walk reports SOI as the signature and emits one    *)
(* numbered marker for every 0xFF byte from offset 2 up to and including   *)
(* the terminal marker, in buffer order; on a buffer SOI, APP0, DQT, SOS,  *)
(* scan bytes with a stray FF 00 these are exactly 3 markers: APP0, DQT    *)
(* and SOS, and none comes from the scan-data tail.                        *)
(***************************************************************************)
C4_MarkersAfterSignature ==
  (JpegWalked /\ Len(data) >= 4) =>
     /\ \E k \in 1..Len(facts) : facts[k].kind = "jpeg_signature" /\ facts[k].sig = <<255, 216>>
     /\ {MarkerFacts[k].off : k \in 1..Len(MarkerFacts)} = ScannedFF(data)
     /\ \A k \in 1..Len(MarkerFacts) :
          /\ MarkerFacts[k].num = k
          /\ MarkerFacts[k].code = data[MarkerFacts[k].off + 2]
          /\ k > 1 => MarkerFacts[k - 1].off < MarkerFacts[k].off
     /\ IsC4Buffer(data) =>
          /\ Len(MarkerFacts) = 3
          /\ MarkerFacts[1].code = 224
          /\ MarkerFacts[2].code = 219
          /\ MarkerFacts[3].code = 218
          /\ MarkerFacts[3].off = FirstTerminal(data)

C4_Witness ==
  /\ pc = "done"
  /\ JpegWalked
  /\ IsC4Buffer(data)
  /\ Len(MarkerFacts) = 3

(***************************************************************************)
(* C5: when the JPEG walk ends without having met EOI or SOS, an           *)
(* incomplete-stream fact has been reported (the insufficient-data line of *)
(* a 2- or 3-byte buffer counts as one).                                   *)
(***************************************************************************)
C5_IncompleteStreamReported ==
  (JpegWalked /\ \A k \in 1..Len(MarkerFacts) : MarkerFacts[k].code \notin {217, 218}) =>
     \E k \in 1..Len(facts) : facts[k].kind \in {"incomplete_stream", "jpeg_insufficient"}

(***************************************************************************)
(* C6: when the buffer holds FF D9 or FF DA at some position p >= 2, the   *)
(* JPEG scan never moves past the first such position: no marker is        *)
(* emitted from behind it, the scan offset never exceeds it, and when the  *)
(* walk has returned the last marker emitted is the one at that position.  *)
(***************************************************************************)
C6_StopsAtFirstTerminal ==
  (Loaded /\ invoked = <<"JPEG">> /\ Len(data) >= 4 /\ HasTerminal(data)) =>
     /\ offset <= FirstTerminal(data)
     /\ \A k \in 1..Len(MarkerFacts) : MarkerFacts[k].off <= FirstTerminal(data)
     /\ Returned =>
          /\ offset = FirstTerminal(data)
          /\ MarkerFacts # <<>>
          /\ MarkerFacts[Len(MarkerFacts)].off = FirstTerminal(data)
          /\ MarkerFacts[Len(MarkerFacts)].code \in {217, 218}

C6_Witness ==
  /\ pc = "done"
  /\ JpegWalked
  /\ HasTerminal(data)
  /\ \E p \in (FirstTerminal(data) + 2)..(Len(data) - 2) : data[p + 1] = 255
  /\ MarkerFacts[Len(MarkerFacts)].off = FirstTerminal(data)

(***************************************************************************)
(* C7: no chunk is reported after an IEND chunk, and a walk that has       *)
(* stopped behind a chunk other than IEND has no complete chunk left at    *)
(* the position that follows that chunk.                                   *)
(***************************************************************************)
C7_OnlyIendStopsTheWalk ==
  /\ \A k \in 1..(Len(ChunkFacts) - 1) : ChunkFacts[k].kind # "IEND"
  /\ (/\ Loaded
      /\ invoked = <<"PNG">>
      /\ Returned \/ pc = "raised"
      /\ chunk_count > 0
      /\ facts[Len(facts)].kind # "IEND") =>
        LET next == IF pc = "raised" THEN offset + 12 + ChunkLength ELSE offset
        IN  next + 12 > Len(data)

\* the classification rule, test by test
HasPrefix(d, sig) == Len(d) >= Len(sig) /\ \A k \in 1..Len(sig) : d[k] = sig[k]

RuleKind(d) ==
  IF HasPrefix(d, <<137, 80, 78, 71, 13, 10, 26, 10>>) THEN "PNG"
  ELSE IF HasPrefix(d, <<255, 216>>) THEN "JPEG"
  ELSE IF HasPrefix(d, <<66, 77>>) THEN "BMP"
  ELSE "Unknown"

FactsOf(kind) ==
  CASE kind = "PNG" -> {"png_signature", "png_insufficient", "png_bad_signature", "chunk_number",
                        "chunk", "IHDR", "IHDR_malformed", "IDAT", "IDAT_error", "IEND"}
    [] kind = "JPEG" -> {"jpeg_signature", "jpeg_insufficient", "jpeg_bad_signature", "marker"}
    [] kind = "BMP" -> {"bmp_signature", "bmp_insufficient", "bmp_bad_signature",
                        "bmp_file_header", "bmp_info_header"}
    [] OTHER -> {"unknown_format"}

(***************************************************************************)
(* C8: once analyze_file has dispatched on a loaded buffer, the analysis   *)
(* invoked is the one the ordered signature rule names (PNG, else JPEG,    *)
(* else BMP) and no other, or none for Unknown; every fact printed between *)
(* the load and the hex dump belongs to that analysis; a buffer of length  *)
(* 0 or 1 is Unknown, with no analysis invoked and no exception.           *)
(***************************************************************************)
C8_SignatureDispatch ==
  (Loaded /\ pc \notin {"load_file", "analyze_file"}) =>
     /\ invoked = IF RuleKind(data) = "Unknown" THEN <<>> ELSE <<RuleKind(data)>>
     /\ \A k \in 2..Len(facts) :
          facts[k].kind \in FactsOf(RuleKind(data)) \cup {"hex_dump", "not_loaded"}
     /\ RuleKind(data) = "Unknown" => \E k \in 1..Len(facts) : facts[k].kind = "unknown_format"
     /\ Len(data) < 2 => (invoked = <<>> /\ raised = "none" /\ pc # "raised")

C8_Witness ==
  /\ pc = "done"
  /\ Loaded
  /\ Len(data) = 1
  /\ invoked = <<>>
  /\ \E k \in 1..Len(facts) : facts[k].kind = "unknown_format"

RECURSIVE LittleEndian(_, _, _)
LittleEndian(d, i, w) == IF w = 0 THEN 0 ELSE d[i + 1] + 256 * LittleEndian(d, i + 1, w - 1)

FactsOfKind(kind) == {k \in 1..Len(facts) : facts[k].kind = kind}

(***************************************************************************)
(* C11: when analyze_bmp has returned on a buffer that starts with 'BM':   *)
(* with fewer than 14 bytes it has reported a truncated header and decoded *)
(* no field; with 14 bytes or more it has reported one file header whose   *)
(* file_size, reserved1, reserved2 and data_offset are the little-endian   *)
(* values of bytes 2..5, 6..7, 8..9 and 10..13; the info header            *)
(* (header_size, width, height = little-endian bytes 14..17, 18..21,       *)
(* 22..25) follows the file header when the buffer has 26 bytes or more    *)
(* and is absent otherwise.                                                *)
(***************************************************************************)
C11_BmpHeaders ==
  (Loaded /\ invoked = <<"BMP">> /\ Returned) =>
     /\ Len(data) < 14 =>
          /\ FactsOfKind("bmp_insufficient") # {}
          /\ FactsOfKind("bmp_file_header") = {}
          /\ FactsOfKind("bmp_info_header") = {}
     /\ Len(data) >= 14 =>
          /\ FactsOfKind("bmp_insufficient") = {}
          /\ Cardinality(FactsOfKind("bmp_file_header")) = 1
          /\ \A k \in FactsOfKind("bmp_file_header") :
               /\ facts[k].file_size = LittleEndian(data, 2, 4)
               /\ facts[k].reserved1 = LittleEndian(data, 6, 2)
               /\ facts[k].reserved2 = LittleEndian(data, 8, 2)
               /\ facts[k].data_offset = LittleEndian(data, 10, 4)
     /\ (Len(data) >= 14 /\ Len(data) <= 25) => FactsOfKind("bmp_info_header") = {}
     /\ Len(data) >= 26 =>
          /\ Cardinality(FactsOfKind("bmp_info_header")) = 1
          /\ \A k \in FactsOfKind("bmp_info_header") :
               /\ facts[k - 1].kind = "bmp_file_header"
               /\ facts[k].header_size = LittleEndian(data, 14, 4)
               /\ facts[k].width = LittleEndian(data, 18, 4)
               /\ facts[k].height = LittleEndian(data, 22, 4)

C11_Witness ==
  /\ pc = "done"
  /\ Loaded
  /\ invoked = <<"BMP">>
  /\ Len(data) >= 26
  /\ \E k \in FactsOfKind("bmp_info_header") :
       /\ facts[k].width = LittleEndian(data, 18, 4)
       /\ facts[k].width # facts[k].height
       /\ facts[k - 1].file_size > 65536

(***************************************************************************)
(* print_hex_dump(start, length) called on its own, on a loaded buffer,    *)
(* with any start >= 0 and length >= 0.                                    *)
(***************************************************************************)
DumpBuffers == { [k \in 1..n |-> (k * 29 + 20) % 256] : n \in 0..MaxDumpBuf }

InitDump ==
  /\ data \in DumpBuffers
  /\ pc = "print_hex_dump"
  /\ dump_start \in 0..MaxDumpStart
  /\ dump_len \in 0..MaxDumpLen
  /\ offset = 0
  /\ chunk_count = 0
  /\ marker_count = 0
  /\ facts = <<>>
  /\ raised = "none"
  /\ invoked = <<>>
  /\ dump_end = 0
  /\ dump_i = 0
  /\ rows = <<>>

NextDump ==
  \/ PrintHexDump
  \/ DumpRow
  \/ DumpExit

SpecDump == InitDump /\ [][NextDump]_vars

\* the end of the requested range, clamped to the buffer
RangeEnd == IF dump_start + dump_len < Len(data) THEN dump_start + dump_len ELSE Len(data)

BlankSlots(row) == {j \in 1..16 : row.hex[j] = -1}

(***************************************************************************)
(* C12: a finished print_hex_dump(start, length) has printed exactly       *)
(* ceil((end - start) / 16) rows, end = min(start + length, buffer         *)
(* length), and none when the range is empty; row k starts at              *)
(* start + 16 (k - 1) and has 16 slots, and every slot whose index is at   *)
(* or past the buffer end is blank, in the hex column and in the gutter;   *)
(* a 17-byte buffer dumped from offset 0 gives 2 rows, the second with 15  *)
(* blank slots.                                                            *)
(***************************************************************************)
C12_DumpRowCount ==
  pc = "done" =>
     /\ Len(rows) = IF RangeEnd > dump_start THEN (RangeEnd - dump_start + 15) \div 16 ELSE 0
     /\ \A k \in 1..Len(rows) :
          /\ rows[k].addr = dump_start + 16 * (k - 1)
          /\ Len(rows[k].hex) = 16
          /\ Len(rows[k].ascii) = 16
          /\ \A j \in 1..16 :
               rows[k].addr + (j - 1) >= Len(data) => (rows[k].hex[j] = -1 /\ rows[k].ascii[j] = 32)
     /\ (Len(data) = 17 /\ dump_start = 0 /\ dump_len >= 17) =>
          (Len(rows) = 2 /\ Cardinality(BlankSlots(rows[2])) = 15)

C12_Witness ==
  /\ pc = "done"
  /\ Len(data) = 17
  /\ dump_start = 0
  /\ dump_len = 17
  /\ Len(rows) = 2
  /\ BlankSlots(rows[2]) = 2..16

(***************************************************************************)
(* C13: every byte a finished print_hex_dump(start, length) shows, in the  *)
(* hex column or in the gutter, is at an index i of the buffer with        *)
(* start <= i < min(start + length, buffer length).                        *)
(***************************************************************************)
C13_OnlyRequestedRange ==
  \A k \in 1..Len(rows) : \A j \in 1..16 :
     (rows[k].hex[j] # -1 \/ rows[k].ascii[j] # 32) =>
        (dump_start <= rows[k].addr + (j - 1) /\ rows[k].addr + (j - 1) < RangeEnd)

(***************************************************************************)
(* C14: every iteration of the PNG walk that stays in the loop moves the   *)
(* offset forward by exactly 12 + the declared length of the chunk just    *)
(* read, so by at least 12, and every iteration of the JPEG scan that      *)
(* stays in the loop moves it forward by exactly 1; a step that leaves the *)
(* PNG loop does so on an IEND chunk or with the offset at or past the     *)
(* loop bound (buffer length - 12), a step that leaves the JPEG loop does  *)
(* so on EOI/SOS or with the offset at or past buffer length - 1; the      *)
(* number of chunks and of markers handled never exceeds the buffer        *)
(* length.                                                                 *)
(***************************************************************************)
C14_WalksAdvanceToTheBound ==
  [][ /\ (pc = "png_loop" /\ pc' = "png_loop") =>
            (offset' = offset + 12 + ChunkLength /\ offset' >= offset + 12)
      /\ (pc = "png_loop" /\ pc' # "png_loop") =>
            (offset >= Len(data) - 12 \/ ChunkType = <<73, 69, 78, 68>>)
      /\ (pc = "jpeg_loop" /\ pc' = "jpeg_loop") => offset' = offset + 1
      /\ (pc = "jpeg_loop" /\ pc' # "jpeg_loop") =>
            \/ offset >= Len(data) - 1
            \/ (data[offset + 1] = 255 /\ data[offset + 2] \in {217, 218})
      /\ chunk_count' <= Len(data)
      /\ marker_count' <= Len(data) ]_vars

(***************************************************************************)
(* print_hex_dump alone and analyze_file, together.                        *)
(***************************************************************************)
InitAll == Init \/ InitDump

SpecAll == InitAll /\ [][Next]_vars

(***************************************************************************)
(* C15: no read goes past the end of the buffer and no integer is decoded  *)
(* from fewer bytes than its width: whenever the PNG walk reads a chunk    *)
(* header, the 4-byte length field at offset..offset+3 (and the type tag   *)
(* behind it) lies inside the buffer; whenever the JPEG scan examines a    *)
(* position, offset + 1 is below the buffer length, and so is the code     *)
(* index of every marker reported; the BMP file header is decoded only     *)
(* from 14 bytes or more and the info header only from 26 or more; every   *)
(* byte the hex dump shows has an index i + j below the buffer length.     *)
(***************************************************************************)
C15_ReadsStayInside ==
  /\ PngEnters => (offset >= 8 /\ offset + 8 <= Len(data))
  /\ \A k \in 1..Len(facts) :
       (IsChunkFact(facts[k]) \/ facts[k].kind = "chunk_number") => facts[k].off + 4 <= Len(data)
  /\ (pc = "jpeg_loop" /\ JpegLoopCond(offset, Len(data))) =>
       (offset >= 2 /\ offset + 1 < Len(data))
  /\ \A k \in 1..Len(MarkerFacts) : MarkerFacts[k].off + 1 < Len(data)
  /\ FactsOfKind("bmp_file_header") # {} => Len(data) >= 14
  /\ FactsOfKind("bmp_info_header") # {} => Len(data) >= 26
  /\ \A k \in 1..Len(rows) : \A j \in 1..16 :
       rows[k].hex[j] # -1 =>
          (rows[k].addr + (j - 1) >= 0 /\ rows[k].addr + (j - 1) < Len(data))

C15_Witness ==
  /\ pc = "done"
  /\ Loaded
  /\ invoked = <<"JPEG">>
  /\ MarkerFacts # <<>>
  /\ MarkerFacts[Len(MarkerFacts)].off = Len(data) - 2
  /\ rows # <<>>

====
